---- MODULE Spec2Model ----
(***************************************************************************)
(* Grawlix: phoneme sequencing and chip-protocol engine for the Votrax     *)
(* SC-01.  The sequencer, codec, phrase sources and chip link are those of *)
(* the Patch SM sketch (src/unnamed/part_000), the revision that carries   *)
(* the STM32 timer clock; the Daisy Seed sketch (src/grawlix.ino) differs  *)
(* in setFromGrid's input range, and that variant is modelled beside it.   *)
(*                                                                         *)
(* An Arduino String is a sequence of character codes.  A float control    *)
(* value is a fixed-point number: n stands for n / GridScale.              *)
(***************************************************************************)
EXTENDS Integers, Sequences, FiniteSets, TLC

VARIABLES
  pc,                \* position of the control thread
  phonemeMode,       \* Grawlix::phonemeMode
  advanceMode,       \* Grawlix::advanceMode
  mode,              \* updateMode's parameter `mode` when the call returns
  phrase,            \* Grawlix::phrase
  p,                 \* the Phoneme constructed last
  i,                 \* loop index of say
  advance,           \* advListen's local `advance`
  pSw, aSw,          \* switch pairs as read by the last updateMode call
  arLine,            \* level of the A/R pin when advListen ran
  buttonLine,        \* button1.Pressed() at the last sample
  gateLine,          \* gate.State() when advListen ran
  arSeen,            \* digitalRead(vAr) returned HIGH since the last strobe
  srOut,             \* byte on the 74HC595 outputs
  dataLine,          \* bits put on srData by the last shiftOut, in order
  vStb,              \* level of the strobe pin
  chipIn,            \* byte the SC-01 latched on the last strobe
  loadsSinceStrobe,  \* shiftUpdate calls since the last strobe pulse ended
  strobesSinceLoad,  \* strobe pulses begun since the last shiftUpdate
  strobed,           \* a strobe pulse has been issued in this run
  symbol, inflection,\* arguments of the Phoneme constructor
  x, y,              \* arguments of setFromGrid (fixed point)
  xIndex, yIndex,    \* setFromGrid's locals
  sketch,            \* which sketch's setFromGrid runs
  rnd,               \* outputs of successive rand() calls
  sources,           \* the phrase sources main's switch ran in this cycle
  lines,             \* present levels of the A/R line, the button and the gate
  system_clock_rate, \* HardwarePWM::system_clock_rate
  target_freq,       \* HardwarePWM::target_freq
  target_pw,         \* HardwarePWM::target_pw
  ARR,               \* htim3.Instance->ARR, the timer's period
  CCR1,              \* htim3.Instance->CCR1, the timer's compare value
  multIndex,         \* the index setFreq reads multipliers[] at
  calls,             \* randomSeed and random calls of the last setFromRandom
  writes,            \* digitalWrite calls of the last shiftUpdate, in order
  sent,              \* bytes the SC-01 latched since say was called
  controls           \* present positions of the freq and voct controls

vars == <<pc, phonemeMode, advanceMode, mode, phrase, p, i, advance, pSw, aSw,
          arLine, buttonLine, gateLine, arSeen, srOut, dataLine, vStb, chipIn,
          loadsSinceStrobe, strobesSinceLoad, strobed, symbol, inflection,
          x, y, xIndex, yIndex, sketch, rnd, sources, lines,
          system_clock_rate, target_freq, target_pw, ARR, CCR1, multIndex,
          calls, writes, sent, controls>>

(***************************************************************************)
(* Constant tables.                                                        *)
(***************************************************************************)

\* The 64 symbol names, as character codes; validSymbols[k+1] is entry k.
validSymbols ==
  <<
     <<69,72,51>>, <<69,72,50>>, <<69,72,49>>, <<80,65,48>>, <<68,84>>, <<65,50>>, <<65,49>>, <<90,72>>,   \* EH3 EH2 EH1 PA0 DT A2 A1 ZH
     <<65,72,50>>, <<73,51>>, <<73,50>>, <<73,49>>, <<77>>, <<78>>, <<66>>, <<86>>,   \* AH2 I3 I2 I1 M N B V
     <<67,72>>, <<83,72>>, <<90>>, <<65,87,49>>, <<78,71>>, <<65,72,49>>, <<79,79,49>>, <<79,79>>,   \* CH SH Z AW1 NG AH1 OO1 OO
     <<76>>, <<75>>, <<74>>, <<72>>, <<71>>, <<70>>, <<68>>, <<83>>,   \* L K J H G F D S
     <<65>>, <<65,89>>, <<89,49>>, <<85,72,51>>, <<65,72>>, <<80>>, <<79>>, <<73>>,   \* A AY Y1 UH3 AH P O I
     <<85>>, <<89>>, <<84>>, <<82>>, <<69>>, <<87>>, <<65,69>>, <<65,69,49>>,   \* U Y T R E W AE AE1
     <<65,87,50>>, <<85,72,50>>, <<85,72,49>>, <<85,72>>, <<79,50>>, <<79,49>>, <<73,85>>, <<85,49>>,   \* AW2 UH2 UH1 UH O2 O1 IU U1
     <<84,72,86>>, <<84,72>>, <<69,82>>, <<69,72>>, <<69,49>>, <<65,87>>, <<80,65,49>>, <<83,84,79,80>>   \* THV TH ER EH E1 AW PA1 STOP
  >>

\* Entry k of validSymbols, k in 0..63.
validSymbolAt(k) == validSymbols[k + 1]

vowelGrid ==
  << <<44, 59, 46, 51, 22>>,
     <<60, 2, 47, 50, 43>>,
     <<41, 1, 36, 49, 58>>,
     <<34, 0, 21, 35, 24>>,
     <<39, 32, 8, 38, 54>>,
     <<11, 6, 61, 53, 40>>,
     <<10, 5, 19, 52, 55>>,
     <<9, 33, 48, 23, 45>> >>

\* vowelGrid[xi][yi] with the source's 0-based indices.
vowelGridAt(xi, yi) == vowelGrid[xi + 1][yi + 1]

maxLength == 32

LOW == 0
HIGH == 1

(***************************************************************************)
(* Integer helpers of the C++ arithmetic.                                  *)
(***************************************************************************)

\* Conversion of an int to byte (uint8_t).
ToByte(n) == n % 256

RECURSIVE BitOr(_, _)
\* a | b on non-negative integers.
BitOr(a, b) ==
  IF a = 0 THEN b
  ELSE IF b = 0 THEN a
  ELSE (IF a % 2 = 1 \/ b % 2 = 1 THEN 1 ELSE 0) + 2 * BitOr(a \div 2, b \div 2)

\* C++ integer division, which truncates toward zero.
CDiv(a, b) ==
  IF (a >= 0 /\ b > 0) \/ (a <= 0 /\ b < 0) THEN (IF a >= 0 THEN a ELSE 0 - a) \div (IF b >= 0 THEN b ELSE 0 - b)
  ELSE 0 - ((IF a >= 0 THEN a ELSE 0 - a) \div (IF b >= 0 THEN b ELSE 0 - b))

(***************************************************************************)
(* Phoneme: the constructor that encodes a payload byte.                   *)
(***************************************************************************)

\* String::operator[]: the character at index k, 0 past the end.
CharAt(s, k) == IF k < Len(s) THEN s[k + 1] ELSE 0

RECURSIVE SymbolLoop(_, _, _, _)
\* for (int i = 0; i < 64; i++) symbolIndex = (inflection == symbol[i]) ? i : 3;
SymbolLoop(s, infl, k, symbolIndex) ==
  IF k < 64
  THEN SymbolLoop(s, infl, k + 1, IF infl = CharAt(s, k) THEN k ELSE 3)
  ELSE symbolIndex

\* ValidInflection with the upper limit of the range off by one.
ValidInflectionOffByOne(infl) == IF infl >= 0 /\ infl <= 4 THEN infl ELSE 0

\* ValidInflection without the test inflection >= 0.
ValidInflectionNoLowerLimit(infl) == IF infl <= 3 THEN infl ELSE 0

\* inflectionIndex = (inflection >= 0 && inflection <= 3) ? inflection : 0;
ValidInflection(infl) == IF infl >= 0 /\ infl <= 3 THEN infl ELSE 0

\* Phoneme(String symbol, int inflection): the three members after construction.
Phoneme(s, infl) ==
  LET symbolIndex == SymbolLoop(s, infl, 0, 3)
      inflectionIndex == ValidInflection(infl)
      shifted == ToByte(inflectionIndex * 64)
  IN  [symbolIndex |-> symbolIndex,
       inflectionIndex |-> inflectionIndex,
       payload |-> ToByte(BitOr(shifted, symbolIndex))]

\* The members of a Phoneme before its constructor body runs.
PhonemeDefault == [symbolIndex |-> 3, inflectionIndex |-> 0, payload |-> 0]

(***************************************************************************)
(* updateMode.                                                             *)
(***************************************************************************)

\* The value of the parameter `mode` at the end of updateMode(mode, a, b).
updateMode(m, a, b) ==
  LET m1 == IF ~a /\ ~b THEN 1 ELSE m
      m2 == IF a /\ ~b THEN 2 ELSE m1
      m3 == IF ~a /\ b THEN 3 ELSE m2
  IN  m3

\* The member handed to updateMode, after the call: `mode` is passed by value
\* and the call's result is not used, so the member keeps its value.
MemberAfterUpdateMode(member, a, b) == member

(***************************************************************************)
(* Phrase and its three sources.                                           *)
(***************************************************************************)

\* A Phrase whose length is one more than its arrays hold.
PhraseOverlong ==
  [symbols |-> [k \in 0..(maxLength - 1) |-> << >>],
   inflections |-> [k \in 0..(maxLength - 1) |-> 0],
   length |-> maxLength + 1]

\* A default-constructed Phrase in static storage.
PhraseDefault ==
  [symbols |-> [k \in 0..(maxLength - 1) |-> << >>],
   inflections |-> [k \in 0..(maxLength - 1) |-> 0],
   length |-> 32]

\* setFromMemory assigns nothing.
setFromMemory(ph) == ph

RECURSIVE BitXor(_, _)
\* a ^ b on non-negative integers.
BitXor(a, b) ==
  IF a = 0 THEN b
  ELSE IF b = 0 THEN a
  ELSE (IF a % 2 # b % 2 THEN 1 ELSE 0) + 2 * BitXor(a \div 2, b \div 2)

\* The literal 10^16-1 of the Patch SM sketch: - binds tighter than ^.
GridInMax == BitXor(10, 16 - 1)

\* Steps per unit of a fixed-point control value.
GridScale == 4

\* Conversion of a float argument to map's long parameter: toward zero.
FloatToLong(n) == CDiv(n, GridScale)

\* long map(long x, long in_min, long in_max, long out_min, long out_max)
map(v, in_min, in_max, out_min, out_max) ==
  CDiv((v - in_min) * (out_max - out_min), in_max - in_min) + out_min

\* int xIndex = map(x, 0, 10^16-1, 0, 7);
GridXIndex(xv) == map(FloatToLong(xv), 0, GridInMax, 0, 7)

\* int yIndex = map(y, 0, 10^16-1, 0, 4);
GridYIndex(yv) == map(FloatToLong(yv), 0, GridInMax, 0, 4)

\* int xIndex = map(x, -1, 1, 0, 7);   (Daisy Seed sketch)
SeedGridXIndex(xv) == map(FloatToLong(xv), -1, 1, 0, 7)

\* int yIndex = map(y, -1, 1, 0, 4);   (Daisy Seed sketch)
SeedGridYIndex(yv) == map(FloatToLong(yv), -1, 1, 0, 4)

\* validSymbols[vowelGrid[xi][yi]]; g is what the read yields when an index
\* lies outside the table.
GridSymbol(xi, yi, g) ==
  IF xi \in 0..7 /\ yi \in 0..4 THEN validSymbolAt(vowelGridAt(xi, yi)) ELSE g

\* The phrase after setFromGrid has found the indices xi, yi.
GridPhrase(ph, xi, yi, g) ==
  [ph EXCEPT !.length = 1, !.symbols[0] = GridSymbol(xi, yi, g)]

\* Phrase::setFromGrid of the Patch SM sketch.
setFromGrid(ph, xv, yv, g) == GridPhrase(ph, GridXIndex(xv), GridYIndex(yv), g)

\* Phrase::setFromGrid of the Daisy Seed sketch.
SeedSetFromGrid(ph, xv, yv, g) ==
  GridPhrase(ph, SeedGridXIndex(xv), SeedGridYIndex(yv), g)

minLen == 4
maxLen == 10

\* random(howsmall, howbig) with the inclusive upper limit a reader of
\* "random(0, 63)" might expect.
randomInclusive(howsmall, howbig, r) ==
  IF howsmall > howbig THEN howsmall
  ELSE (r % (howbig - howsmall + 1)) + howsmall

\* long random(long howsmall, long howbig), r being what rand() returns.
random(howsmall, howbig, r) ==
  IF howsmall >= howbig THEN howsmall
  ELSE (r % (howbig - howsmall)) + howsmall

RECURSIVE RandomLoop(_, _, _)
\* The for loop of setFromRandom from index k on; iteration k takes the
\* rand() outputs r[1 + 2k] (symbol) and r[2 + 2k] (inflection).
RandomLoop(ph, r, k) ==
  IF k < ph.length
  THEN LET index == random(0, 63, r[1 + 2 * k])
           infl == random(0, 3, r[2 + 2 * k])
       IN  RandomLoop([ph EXCEPT !.symbols[k] = validSymbolAt(index),
                                 !.inflections[k] = infl],
                      r, k + 1)
  ELSE ph

RECURSIVE RandomLoopCalls(_, _)
\* The randomSeed and random calls of setFromRandom's loop from index k on.
RandomLoopCalls(length, k) ==
  IF k < length
  THEN <<"randomSeed", "random", "random">> \o RandomLoopCalls(length, k + 1)
  ELSE << >>

\* The randomSeed and random calls of setFromRandom, in order, when the
\* length drawn is `length`.
setFromRandomCalls(length) ==
  <<"randomSeed", "random">> \o RandomLoopCalls(length, 0)

\* Phrase::setFromRandom; r[0] is the rand() output behind the length.
setFromRandom(ph, r) ==
  RandomLoop([ph EXCEPT !.length = random(minLen, maxLen, r[0])], r, 0)

(***************************************************************************)
(* Votrax: the chip link.                                                  *)
(***************************************************************************)

\* 2^n for n in 0..7.
Pow2(n) == CASE n = 0 -> 1 [] n = 1 -> 2 [] n = 2 -> 4 [] n = 3 -> 8
             [] n = 4 -> 16 [] n = 5 -> 32 [] n = 6 -> 64 [] n = 7 -> 128

\* shiftOut with LSBFIRST in place of MSBFIRST.
shiftOutLsbFirst(data) == [k \in 1..8 |-> (data \div Pow2(k - 1)) % 2]

\* shiftOut(srData, srClk, MSBFIRST, data): the eight levels put on srData.
shiftOut(data) == [k \in 1..8 |-> (data \div Pow2(8 - k)) % 2]

RECURSIVE shiftOutWrites(_, _)
\* shiftOut's digitalWrite calls from bit k on: the data level, then the
\* clock high and low.
shiftOutWrites(data, k) ==
  IF k <= 8
  THEN << <<"srData", shiftOut(data)[k]>>, <<"srClk", HIGH>>, <<"srClk", LOW>> >>
         \o shiftOutWrites(data, k + 1)
  ELSE << >>

\* shiftUpdate with the latch left high.
shiftUpdateLatchLeftHigh(data) ==
  shiftOutWrites(data, 1) \o << <<"srLatch", HIGH>> >>

\* shiftUpdate(data): shiftOut, then digitalWrite(srLatch, HIGH) and
\* digitalWrite(srLatch, LOW).
shiftUpdate(data) ==
  shiftOutWrites(data, 1) \o << <<"srLatch", HIGH>>, <<"srLatch", LOW>> >>

\* A shift register that does not take the bits clocked into it.
RegisterValueStuck(bits, acc) == acc

RECURSIVE RegisterValue(_, _)
\* The byte held by the shift register after the bits were clocked in,
\* first bit ending in the highest position.
RegisterValue(bits, acc) ==
  IF bits = << >> THEN acc ELSE RegisterValue(Tail(bits), (2 * acc + Head(bits)) % 256)

(***************************************************************************)
(* uint32_t arithmetic.  A uint32_t is the pair <<high, low>> of its 16-bit *)
(* halves, so that no intermediate value leaves the range of TLC integers. *)
(***************************************************************************)

\* The uint32_t with value n, for 0 <= n < 2^31.
U32(n) == <<n \div 65536, n % 65536>>

\* 0xFFFFFFFF.
U32Max == <<65535, 65535>>

\* a + b modulo 2^32.
U32Add(a, b) ==
  LET lo == a[2] + b[2]
  IN  <<(a[1] + b[1] + (lo \div 65536)) % 65536, lo % 65536>>

\* a - b modulo 2^32.
U32Sub(a, b) ==
  LET lo == a[2] - b[2]
  IN  <<(a[1] - b[1] - (IF lo < 0 THEN 1 ELSE 0)) % 65536, lo % 65536>>

\* The product of two 16-bit values, as a uint32_t.
Mul16(a, b) ==
  LET low == (a % 256) * b
      high == (a \div 256) * b
  IN  U32Add(U32(low), <<high \div 256, (high % 256) * 256>>)

\* a * b modulo 2^32.
U32Mul(a, b) ==
  LET cross == (Mul16(a[1], b[2])[2] + Mul16(a[2], b[1])[2]) % 65536
  IN  U32Add(Mul16(a[2], b[2]), <<cross, 0>>)

\* a <= b.
U32Leq(a, b) == a[1] < b[1] \/ (a[1] = b[1] /\ a[2] <= b[2])

\* n / d for an int n below 2^31 and a uint32_t d that is not 0.
U32Quot(n, d) ==
  IF d[1] >= 32768 THEN U32(0) ELSE U32(n \div (d[1] * 65536 + d[2]))

(***************************************************************************)
(* HardwarePWM: the SC-01's external clock on TIM3.                        *)
(***************************************************************************)

\* uint32_t kHz = 10^3;  ^ is exclusive or.
kHz == BitXor(10, 3)

\* uint32_t MHz = 10^6;
MHz == BitXor(10, 6)

\* uint32_t default_freq = 720 * kHz;
default_freq == U32(720 * kHz)

\* uint32_t default_pw = 0.5;  the conversion to uint32_t drops the fraction.
default_pw == 0

\* uint32_t default_counter_period = (system_clock_rate / default_freq) - 1;
default_counter_period(clk) == U32Sub(U32Quot(clk, default_freq), U32(1))

\* uint32_t default_pw_period = default_counter_period * default_pw;
default_pw_period(clk) == U32Mul(default_counter_period(clk), U32(default_pw))

\* freqToTicks(freq) = (system_clock_rate / freq) - 1; z is what the division
\* yields when freq is 0.
freqToTicks(clk, freq, z) ==
  U32Sub(IF freq = U32(0) THEN z ELSE U32Quot(clk, freq), U32(1))

\* setFreq: target_freq = (720 * MHz) * freq_knob * voct_val;
SetFreqTarget(freq_knob, voct_val) ==
  U32Mul(U32Mul(U32(720 * MHz), U32(freq_knob)), U32(voct_val))

\* setFreq: the index map(voct_val, 0, 10^16-1, 0, 37) into multipliers[37].
SetFreqMultIndex(voct_val) == map(voct_val, 0, GridInMax, 0, 37)

\* setFreq: updated_pw_period = target_ticks * target_pw;
SetFreqCompare(ticks, pw) == U32Mul(ticks, pw)

\* setPulseWidth: target_pw_period = (freqToTicks(target_freq) * target_pw) - 1;
SetPulseWidthCompare(ticks, pw) == U32Sub(U32Mul(ticks, pw), U32(1))

\* The members and timer registers after construction and Init().
ClockAfterInit(clk) ==
  [system_clock_rate |-> clk,
   target_freq |-> default_freq,
   target_pw |-> U32(default_pw),
   ARR |-> default_counter_period(clk),
   CCR1 |-> default_pw_period(clk),
   multIndex |-> 0]

\* setFreq(freq_knob, voct_val) on the clock state c.
setFreq(c, freq_knob, voct_val, z) ==
  LET freq == SetFreqTarget(freq_knob, voct_val)
      target_ticks == freqToTicks(c.system_clock_rate, freq, z)
  IN  [c EXCEPT !.target_freq = freq,
                !.ARR = target_ticks,
                !.CCR1 = SetFreqCompare(target_ticks, c.target_pw),
                !.multIndex = SetFreqMultIndex(voct_val)]

\* setPulseWidth(pw) on the clock state c.
setPulseWidth(c, pw, z) ==
  [c EXCEPT !.target_pw = pw,
            !.CCR1 = SetPulseWidthCompare(
                       freqToTicks(c.system_clock_rate, c.target_freq, z), pw)]

(***************************************************************************)
(* Bounds of the model and the inputs drawn within them.                   *)
(***************************************************************************)

\* Inflection arguments range over -InflSlack .. 3 + InflSlack.
InflSlack == 2

\* rand() outputs range over 0..MaxRand.
MaxRand == 63

\* Control values range over -GridReach .. GridReach (in units of 1/GridScale).
GridReach == 8

Inflections == (0 - InflSlack)..(3 + InflSlack)

\* A String of 64 characters whose last character has code c.
LongString(c) == [k \in 1..64 |-> IF k = 64 THEN c ELSE 65]

\* Strings that are no symbol name: "", "XX" and three 64-character strings.
OtherStrings == {<< >>, <<88, 88>>} \cup {LongString(c) : c \in 1..3}

ValidStrings == {validSymbolAt(k) : k \in 0..63}

AnyString == ValidStrings \cup OtherStrings

\* rand() is called once for the length and twice per phoneme, of which a
\* phrase holds at most maxLength.
MaxDraws == 1 + 2 * maxLength

\* Streams of rand() outputs: every value occurs at every position.
RandStreams ==
  {[k \in 0..(MaxDraws - 1) |-> (a + k * d) % (MaxRand + 1)] :
     a \in 0..MaxRand, d \in 0..MaxRand}

ZeroStream == [k \in 0..(MaxDraws - 1) |-> 0]

\* Streams behind the phrase of an earlier cycle: rand() yielding 0, d, 2d, ...
EarlierStreams ==
  {[k \in 0..(MaxDraws - 1) |-> (k * d) % (MaxRand + 1)] : d \in 0..2}

GridInputs == (0 - GridReach)..GridReach

\* uint16_t arguments of setFreq: 0..MaxKnob and the greatest value.
MaxKnob == 5

KnobValues == 0..MaxKnob \cup {65535}

\* uint32_t arguments of setPulseWidth: 0..MaxPulseWidth and the greatest value.
MaxPulseWidth == 2

PulseWidths == {U32(n) : n \in 0..MaxPulseWidth} \cup {U32Max}

\* What System::GetPClk2Freq() may report: APB2 at 100 MHz or 120 MHz.
ClockRates == {100000000, 120000000}

\* What a division by zero may yield.
ZeroQuotients == {U32(0), U32Max}

\* What freq.Value() and voct.Value() convert to in setup: 0.0 to 1.0 as uint16_t.
SetupKnobs == {0, 1}

\* What x.Value() and y.Value() deliver: 0.0 to 1.0.
ControlValues == 0..GridScale

(***************************************************************************)
(* The state after static initialization and setup().                      *)
(***************************************************************************)

SequencerInit ==
  /\ phonemeMode = 0
  /\ advanceMode = 0
  /\ mode = 0
  /\ phrase = PhraseDefault
  /\ p = PhonemeDefault
  /\ i = 0
  /\ advance = FALSE
  /\ pSw = <<FALSE, FALSE>>
  /\ aSw = <<FALSE, FALSE>>
  /\ arLine = FALSE
  /\ buttonLine = FALSE
  /\ gateLine = FALSE
  /\ arSeen = FALSE
  /\ srOut = 0
  /\ dataLine = << >>
  /\ vStb = LOW
  /\ chipIn = 0
  /\ loadsSinceStrobe = 0
  /\ strobesSinceLoad = 0
  /\ strobed = FALSE
  /\ sources = << >>
  /\ lines = [ar |-> FALSE, button |-> FALSE, gate |-> FALSE]
  /\ calls = << >>
  /\ writes = << >>
  /\ sent = << >>

ArgumentsInit ==
  /\ symbol = << >>
  /\ inflection = 0
  /\ x = 0
  /\ y = 0
  /\ xIndex = 0
  /\ yIndex = 0
  /\ sketch = "patch"
  /\ rnd = ZeroStream

\* The clock variables hold the state c.
ClockIs(c) ==
  /\ system_clock_rate = c.system_clock_rate
  /\ target_freq = c.target_freq
  /\ target_pw = c.target_pw
  /\ ARR = c.ARR
  /\ CCR1 = c.CCR1
  /\ multIndex = c.multIndex

\* The clock state held in the variables.
ClockNow ==
  [system_clock_rate |-> system_clock_rate,
   target_freq |-> target_freq,
   target_pw |-> target_pw,
   ARR |-> ARR,
   CCR1 |-> CCR1,
   multIndex |-> multIndex]

\* setup: sc01Clock.Init(); sc01Clock.setFreq(freq.Value(), voct.Value());
ClockSetup ==
  \E clk \in ClockRates, fk, vv \in SetupKnobs, z \in ZeroQuotients :
    /\ controls = [freq |-> fk, voct |-> vv]
    /\ ClockIs(setFreq(ClockAfterInit(clk), fk, vv, z))

\* The clock as setup leaves it on a 100 MHz bus with both controls at 0.
ClockAtRest ==
  /\ controls = [freq |-> 0, voct |-> 0]
  /\ ClockIs(setFreq(ClockAfterInit(100000000), 0, 0, U32(0)))

\* The sequencer runs on a 100 MHz bus.
Init ==
  /\ pc = "main"
  /\ SequencerInit
  /\ ArgumentsInit
  /\ ClockSetup
  /\ system_clock_rate = 100000000

sequencerVars == <<phonemeMode, advanceMode, mode, phrase, p, i, advance, pSw,
                   aSw, arLine, buttonLine, gateLine, arSeen, srOut, dataLine,
                   vStb, chipIn, loadsSinceStrobe, strobesSinceLoad, strobed>>

linkVars == <<srOut, dataLine, vStb, chipIn, loadsSinceStrobe,
              strobesSinceLoad, strobed, arSeen>>

argumentVars == <<symbol, inflection, x, y, xIndex, yIndex, sketch, rnd>>

clockVars == <<system_clock_rate, target_freq, target_pw, ARR, CCR1, multIndex>>

(***************************************************************************)
(* The sequencer: main, say, advListen, strobe.                            *)
(***************************************************************************)

\* Ghost counters stop counting here.
CountCap == 2

Bump(n) == IF n < CountCap THEN n + 1 ELSE n

\* The body of say's loop with the call of strobe left out.
SayNextWithoutStrobe(stmt) ==
  CASE stmt = "shiftUpdate" -> "advListen"
    [] stmt = "advListen" -> "say"
    [] stmt = "strobe" -> "say"

\* The statement that follows stmt in the body of say's loop; "say" is the
\* loop's next iteration.
SayNext(stmt) ==
  CASE stmt = "shiftUpdate" -> "advListen"
    [] stmt = "advListen" -> "strobe"
    [] stmt = "strobe" -> "say"

\* main up to the call of say: updateMode, then the switch on phonemeMode.
Main ==
  /\ pc = "main"
  /\ \E a, b \in BOOLEAN :
       /\ pSw' = <<a, b>>
       /\ mode' = updateMode(phonemeMode, a, b)
       /\ phonemeMode' = MemberAfterUpdateMode(phonemeMode, a, b)
  /\ sources' = CASE phonemeMode' = 1 -> <<"Memory">>
                   [] phonemeMode' = 2 -> <<"Grid">>
                   [] phonemeMode' = 3 -> <<"Random">>
                   [] OTHER -> << >>
  /\ IF phonemeMode' = 1
       THEN /\ phrase' = setFromMemory(phrase)
            /\ UNCHANGED <<x, y, xIndex, yIndex, rnd>>
     ELSE IF phonemeMode' = 2
       THEN \E xv, yv \in ControlValues, g \in AnyString :
              /\ phrase' = setFromGrid(phrase, xv, yv, g)
              /\ x' = xv
              /\ y' = yv
              /\ xIndex' = GridXIndex(xv)
              /\ yIndex' = GridYIndex(yv)
              /\ UNCHANGED rnd
     ELSE IF phonemeMode' = 3
       THEN \E r \in RandStreams :
              /\ phrase' = setFromRandom(phrase, r)
              /\ rnd' = r
              /\ UNCHANGED <<x, y, xIndex, yIndex>>
     ELSE UNCHANGED <<phrase, x, y, xIndex, yIndex, rnd>>
  /\ i' = 0
  /\ pc' = "say"
  /\ UNCHANGED <<advanceMode, p, advance, aSw, arLine, buttonLine, gateLine,
                 symbol, inflection, sketch>>
  /\ UNCHANGED linkVars
  /\ calls' = IF phonemeMode' = 3 THEN setFromRandomCalls(phrase'.length)
              ELSE << >>
  /\ sent' = << >>
  /\ UNCHANGED clockVars
  /\ UNCHANGED <<lines, writes, controls>>

\* One pass of say's loop up to and including shiftUpdate.
SayLoad ==
  /\ pc = "say"
  /\ i < phrase.length
  /\ \E a, b \in BOOLEAN :
       /\ aSw' = <<a, b>>
       /\ mode' = updateMode(advanceMode, a, b)
       /\ advanceMode' = MemberAfterUpdateMode(advanceMode, a, b)
  /\ p' = Phoneme(phrase.symbols[i], phrase.inflections[i])
  /\ dataLine' = shiftOut(p'.payload)
  /\ srOut' = RegisterValue(dataLine', srOut)
  /\ loadsSinceStrobe' = Bump(loadsSinceStrobe)
  /\ strobesSinceLoad' = 0
  /\ writes' = shiftUpdate(p'.payload)
  /\ pc' = SayNext("shiftUpdate")
  /\ UNCHANGED <<phonemeMode, phrase, i, advance, pSw, arLine, buttonLine,
                 gateLine, arSeen, vStb, chipIn, strobed>>
  /\ UNCHANGED argumentVars
  /\ UNCHANGED clockVars
  /\ UNCHANGED <<sources, lines>>
  /\ UNCHANGED <<calls, sent, controls>>

\* say's loop ends; main goes on to while (!button1.Pressed()).
SayDone ==
  /\ pc = "say"
  /\ ~(i < phrase.length)
  /\ pc' = "button"
  /\ UNCHANGED sequencerVars
  /\ UNCHANGED argumentVars
  /\ UNCHANGED clockVars
  /\ UNCHANGED <<sources, lines>>
  /\ UNCHANGED <<calls, writes, sent, controls>>

\* advListen up to its while loop.  arUpdate has no return statement: ret is
\* the value its caller finds.  When no case matches, `advance` is never
\* assigned: junk is the value the loop then reads.
AdvListen ==
  /\ pc = "advListen"
  /\ \E a, b \in BOOLEAN :
       /\ aSw' = <<a, b>>
       /\ mode' = updateMode(advanceMode, a, b)
       /\ advanceMode' = MemberAfterUpdateMode(advanceMode, a, b)
  /\ \E ar, button, gate, ret, junk \in BOOLEAN :
       /\ arLine' = ar
       /\ buttonLine' = button
       /\ gateLine' = gate
       /\ lines' = [ar |-> ar, button |-> button, gate |-> gate]
       /\ advance' = CASE advanceMode' = 1 -> ret
                       [] advanceMode' = 2 -> ret /\ button
                       [] advanceMode' = 3 -> ret /\ gate
                       [] OTHER -> junk
       /\ arSeen' = IF advanceMode' \in 1..3 THEN arSeen \/ ar ELSE arSeen
  /\ pc' = "wait"
  /\ UNCHANGED <<phonemeMode, phrase, p, i, pSw, srOut, dataLine, vStb, chipIn,
                 loadsSinceStrobe, strobesSinceLoad, strobed>>
  /\ UNCHANGED argumentVars
  /\ UNCHANGED clockVars
  /\ UNCHANGED sources
  /\ UNCHANGED <<calls, writes, sent, controls>>

\* while (!advance) {}: the loop reads nothing but `advance`.  While it
\* spins, the A/R line, the button and the gate go on changing.
Wait ==
  /\ pc = "wait"
  /\ IF advance
       THEN /\ pc' = SayNext("advListen")
            /\ i' = IF pc' = "say" THEN i + 1 ELSE i
            /\ UNCHANGED lines
       ELSE /\ \E ar, button, gate \in BOOLEAN :
                 lines' = [ar |-> ar, button |-> button, gate |-> gate]
            /\ UNCHANGED <<pc, i>>
  /\ UNCHANGED <<phonemeMode, advanceMode, mode, phrase, p, advance, pSw, aSw,
                 arLine, buttonLine, gateLine>>
  /\ UNCHANGED linkVars
  /\ UNCHANGED argumentVars
  /\ UNCHANGED clockVars
  /\ UNCHANGED sources
  /\ UNCHANGED <<calls, writes, sent, controls>>

\* strobe: digitalWrite(vStb, HIGH); the SC-01 takes the register's byte.
StrobeHigh ==
  /\ pc = "strobe"
  /\ vStb' = HIGH
  /\ chipIn' = srOut
  /\ strobesSinceLoad' = Bump(strobesSinceLoad)
  /\ strobed' = TRUE
  /\ arSeen' = FALSE
  /\ sent' = Append(sent, srOut)
  /\ pc' = "strobeHeld"
  /\ UNCHANGED <<phonemeMode, advanceMode, mode, phrase, p, i, advance, pSw,
                 aSw, arLine, buttonLine, gateLine, srOut, dataLine,
                 loadsSinceStrobe>>
  /\ UNCHANGED argumentVars
  /\ UNCHANGED clockVars
  /\ UNCHANGED <<sources, lines>>
  /\ UNCHANGED <<calls, writes, controls>>

\* strobe: delay(strobeTime); digitalWrite(vStb, LOW); then the loop's i++.
StrobeLow ==
  /\ pc = "strobeHeld"
  /\ vStb' = LOW
  /\ loadsSinceStrobe' = 0
  /\ pc' = SayNext("strobe")
  /\ i' = IF pc' = "say" THEN i + 1 ELSE i
  /\ UNCHANGED <<phonemeMode, advanceMode, mode, phrase, p, advance, pSw, aSw,
                 arLine, buttonLine, gateLine, arSeen, srOut, dataLine, chipIn,
                 strobesSinceLoad, strobed>>
  /\ UNCHANGED argumentVars
  /\ UNCHANGED clockVars
  /\ UNCHANGED <<sources, lines>>
  /\ UNCHANGED <<calls, writes, sent, controls>>

\* main returning whatever button1.Pressed() reads.
AfterButtonUnread(pressed) == "main"

\* while (!button1.Pressed()) {}: where control is after one reading.
AfterButton(pressed) == IF pressed THEN "main" ELSE "button"

\* while (!button1.Pressed()) {} ; then loop() calls main again.
Button ==
  /\ pc = "button"
  /\ \E pressed \in BOOLEAN :
       /\ buttonLine' = pressed
       /\ pc' = AfterButton(pressed)
  /\ UNCHANGED <<phonemeMode, advanceMode, mode, phrase, p, i, advance, pSw,
                 aSw, arLine, gateLine>>
  /\ UNCHANGED linkVars
  /\ UNCHANGED argumentVars
  /\ UNCHANGED clockVars
  /\ UNCHANGED <<sources, lines>>
  /\ UNCHANGED <<calls, writes, sent, controls>>

\* updateMode is declared int and ends without a return statement, so a call
\* of it need not come back to its caller: control is lost where main, say's
\* loop or advListen calls it.
Lost ==
  /\ \/ pc \in {"main", "advListen"}
     \/ (pc = "say" /\ i < phrase.length)
  /\ pc' = "lost"
  /\ UNCHANGED sequencerVars
  /\ UNCHANGED argumentVars
  /\ UNCHANGED clockVars
  /\ UNCHANGED <<sources, lines>>
  /\ UNCHANGED <<calls, writes, sent, controls>>

Next ==
  \/ Main
  \/ SayLoad
  \/ SayDone
  \/ AdvListen
  \/ Wait
  \/ StrobeHigh
  \/ StrobeLow
  \/ Button
  \/ Lost

Spec == Init /\ [][Next]_vars

(***************************************************************************)
(* The Phoneme constructor on its own, over symbol names, other strings    *)
(* and inflections inside and outside 0..3.                                *)
(***************************************************************************)

InitCodec ==
  /\ ClockAtRest
  /\ pc = "construct"
  /\ SequencerInit
  /\ symbol \in AnyString
  /\ inflection \in Inflections
  /\ x = 0
  /\ y = 0
  /\ xIndex = 0
  /\ yIndex = 0
  /\ sketch = "patch"
  /\ rnd = ZeroStream

\* Phoneme p(symbol, inflection);
Construct ==
  /\ pc = "construct"
  /\ p' = Phoneme(symbol, inflection)
  /\ pc' = "constructed"
  /\ UNCHANGED <<phonemeMode, advanceMode, mode, phrase, i, advance, pSw, aSw,
                 arLine, buttonLine, gateLine>>
  /\ UNCHANGED linkVars
  /\ UNCHANGED argumentVars
  /\ UNCHANGED clockVars
  /\ UNCHANGED <<sources, lines>>
  /\ UNCHANGED <<calls, writes, sent, controls>>

\* vo.shiftUpdate(p.payload);
ShiftUpdate ==
  /\ pc = "constructed"
  /\ dataLine' = shiftOut(p.payload)
  /\ srOut' = RegisterValue(dataLine', srOut)
  /\ loadsSinceStrobe' = Bump(loadsSinceStrobe)
  /\ strobesSinceLoad' = 0
  /\ writes' = shiftUpdate(p.payload)
  /\ pc' = "loaded"
  /\ UNCHANGED <<phonemeMode, advanceMode, mode, phrase, p, i, advance, pSw,
                 aSw, arLine, buttonLine, gateLine, arSeen, vStb, chipIn,
                 strobed>>
  /\ UNCHANGED argumentVars
  /\ UNCHANGED clockVars
  /\ UNCHANGED <<sources, lines>>
  /\ UNCHANGED <<calls, sent, controls>>

NextCodec ==
  \/ Construct
  \/ ShiftUpdate

SpecCodec == InitCodec /\ [][NextCodec]_vars

(***************************************************************************)
(* setFromGrid on its own, in both sketches, over control values inside    *)
(* and outside the nominal range.                                          *)
(***************************************************************************)

InitGrid ==
  /\ ClockAtRest
  /\ pc = "grid"
  /\ SequencerInit
  /\ symbol = << >>
  /\ inflection = 0
  /\ x \in GridInputs
  /\ y \in GridInputs
  /\ xIndex = 0
  /\ yIndex = 0
  /\ sketch \in {"patch", "seed"}
  /\ rnd = ZeroStream

\* phrase.setFromRandom() of an earlier cycle, before the cycle that calls
\* setFromGrid: the Phrase object is a member and lives across cycles.
RandomEarlier ==
  /\ pc = "grid"
  /\ phrase = PhraseDefault
  /\ \E r \in EarlierStreams :
       /\ phrase' = setFromRandom(phrase, r)
       /\ rnd' = r
  /\ calls' = setFromRandomCalls(phrase'.length)
  /\ UNCHANGED <<pc, phonemeMode, advanceMode, mode, p, i, advance, pSw, aSw,
                 arLine, buttonLine, gateLine>>
  /\ UNCHANGED linkVars
  /\ UNCHANGED <<symbol, inflection, x, y, xIndex, yIndex, sketch>>
  /\ UNCHANGED clockVars
  /\ UNCHANGED <<sources, lines>>
  /\ UNCHANGED <<writes, sent, controls>>

\* phrase.setFromGrid(x, y);
Grid ==
  /\ pc = "grid"
  /\ xIndex' = IF sketch = "patch" THEN GridXIndex(x) ELSE SeedGridXIndex(x)
  /\ yIndex' = IF sketch = "patch" THEN GridYIndex(y) ELSE SeedGridYIndex(y)
  /\ \E g \in AnyString :
       phrase' = IF sketch = "patch" THEN setFromGrid(phrase, x, y, g)
                 ELSE SeedSetFromGrid(phrase, x, y, g)
  /\ pc' = "gridSet"
  /\ UNCHANGED <<phonemeMode, advanceMode, mode, p, i, advance, pSw, aSw,
                 arLine, buttonLine, gateLine>>
  /\ UNCHANGED linkVars
  /\ UNCHANGED <<symbol, inflection, x, y, sketch, rnd>>
  /\ UNCHANGED clockVars
  /\ UNCHANGED <<sources, lines>>
  /\ UNCHANGED <<calls, writes, sent, controls>>

\* setFromGrid is declared int and ends without a return statement: the call
\* comes back to its caller or control is lost.
GridReturn ==
  /\ pc = "gridSet"
  /\ \E back \in BOOLEAN : pc' = IF back THEN "gridReturned" ELSE "lost"
  /\ UNCHANGED sequencerVars
  /\ UNCHANGED argumentVars
  /\ UNCHANGED clockVars
  /\ UNCHANGED <<sources, lines>>
  /\ UNCHANGED <<calls, writes, sent, controls>>

NextGrid ==
  \/ RandomEarlier
  \/ Grid
  \/ GridReturn

SpecGrid == InitGrid /\ [][NextGrid]_vars

(***************************************************************************)
(* setFromRandom on its own, over streams of rand() outputs.               *)
(***************************************************************************)

InitRandom ==
  /\ ClockAtRest
  /\ pc = "random"
  /\ SequencerInit
  /\ symbol = << >>
  /\ inflection = 0
  /\ x = 0
  /\ y = 0
  /\ xIndex = 0
  /\ yIndex = 0
  /\ sketch = "patch"
  /\ rnd \in RandStreams

\* phrase.setFromRandom();
Random ==
  /\ pc = "random"
  /\ phrase' = setFromRandom(phrase, rnd)
  /\ calls' = setFromRandomCalls(phrase'.length)
  /\ pc' = "randomSet"
  /\ UNCHANGED <<phonemeMode, advanceMode, mode, p, i, advance, pSw, aSw,
                 arLine, buttonLine, gateLine>>
  /\ UNCHANGED linkVars
  /\ UNCHANGED argumentVars
  /\ UNCHANGED clockVars
  /\ UNCHANGED <<sources, lines>>
  /\ UNCHANGED <<writes, sent, controls>>

NextRandom == Random

SpecRandom == InitRandom /\ [][NextRandom]_vars

(***************************************************************************)
(* HardwarePWM on its own: any sequence of setFreq and setPulseWidth calls *)
(* after setup.                                                            *)
(***************************************************************************)

InitClock ==
  /\ pc = "clock"
  /\ SequencerInit
  /\ ArgumentsInit
  /\ ClockSetup

\* The clock variables take the state c.
ClockBecomes(c) ==
  /\ system_clock_rate' = c.system_clock_rate
  /\ target_freq' = c.target_freq
  /\ target_pw' = c.target_pw
  /\ ARR' = c.ARR
  /\ CCR1' = c.CCR1
  /\ multIndex' = c.multIndex

\* sc01Clock.setFreq(freq_knob, voct_val);
SetFreq ==
  /\ pc = "clock"
  /\ \E freq_knob, voct_val \in KnobValues, z \in ZeroQuotients :
       ClockBecomes(setFreq(ClockNow, freq_knob, voct_val, z))
  /\ UNCHANGED pc
  /\ UNCHANGED sequencerVars
  /\ UNCHANGED argumentVars
  /\ UNCHANGED <<sources, lines>>
  /\ UNCHANGED <<calls, writes, sent, controls>>

\* sc01Clock.setPulseWidth(pw);
SetPulseWidth ==
  /\ pc = "clock"
  /\ \E pw \in PulseWidths, z \in ZeroQuotients :
       ClockBecomes(setPulseWidth(ClockNow, pw, z))
  /\ UNCHANGED pc
  /\ UNCHANGED sequencerVars
  /\ UNCHANGED argumentVars
  /\ UNCHANGED <<sources, lines>>
  /\ UNCHANGED <<calls, writes, sent, controls>>

NextClock ==
  \/ SetFreq
  \/ SetPulseWidth

SpecClock == InitClock /\ [][NextClock]_vars

(***************************************************************************)
(* say on its own, over phrases of several lengths and contents.           *)
(***************************************************************************)

\* Phrases passed to say: the default one, an empty one, a Grid phrase and
\* Random phrases.
SayPhrases ==
  {PhraseDefault, [PhraseDefault EXCEPT !.length = 0],
   GridPhrase(PhraseDefault, 0, 0, << >>)}
    \cup {setFromRandom(PhraseDefault, r) : r \in EarlierStreams}

InitSay ==
  /\ pc = "sayCall"
  /\ SequencerInit
  /\ ArgumentsInit
  /\ ClockAtRest

\* say(phrase): the parameter is a copy of the argument.
SayCall ==
  /\ pc = "sayCall"
  /\ phrase' \in SayPhrases
  /\ i' = 0
  /\ sent' = << >>
  /\ pc' = "say"
  /\ UNCHANGED <<phonemeMode, advanceMode, mode, p, advance, pSw, aSw, arLine,
                 buttonLine, gateLine>>
  /\ UNCHANGED linkVars
  /\ UNCHANGED argumentVars
  /\ UNCHANGED clockVars
  /\ UNCHANGED <<sources, lines>>
  /\ UNCHANGED <<calls, writes, controls>>

NextSay ==
  \/ SayCall
  \/ SayLoad
  \/ SayDone
  \/ AdvListen
  \/ Wait
  \/ StrobeHigh
  \/ StrobeLow
  \/ Lost

SpecSay == InitSay /\ [][NextSay]_vars

(***************************************************************************)
(* The sequencer while the performer turns the freq and voct controls.     *)
(***************************************************************************)

\* What freq.Value() and voct.Value() would convert to now.
ControlPositions == [freq : SetupKnobs, voct : SetupKnobs]

InitControls ==
  /\ pc = "main"
  /\ SequencerInit
  /\ ArgumentsInit
  /\ ClockAtRest

\* The performer moves a control; no statement of loop() reads it.
Turn ==
  /\ \E c \in ControlPositions :
       /\ c # controls
       /\ controls' = c
  /\ UNCHANGED pc
  /\ UNCHANGED sequencerVars
  /\ UNCHANGED argumentVars
  /\ UNCHANGED clockVars
  /\ UNCHANGED <<sources, lines>>
  /\ UNCHANGED <<calls, writes, sent>>

NextControls ==
  \/ Next
  \/ Turn

SpecControls == InitControls /\ [][NextControls]_vars

\* The timer period is the one setFreq computes from the present positions
\* of the controls.
PeriodFollowsControls ==
  \E z \in ZeroQuotients :
    ARR = setFreq(ClockNow, controls.freq, controls.voct, z).ARR

\* A step of the program that writes another value to the timer period.
PeriodUpdate == NextControls /\ ARR' # ARR

(***************************************************************************)
(* What the specification expects of mode resolution and the advance gate. *)
(***************************************************************************)

ModeSet == {1, 2, 3}

\* The mode the specification assigns to a switch pair.
ExpectedMode(sw) ==
  CASE sw = <<FALSE, FALSE>> -> 1
    [] sw = <<TRUE, FALSE>> -> 2
    [] sw = <<FALSE, TRUE>> -> 3
    [] OTHER -> 0

\* mayAdvance(mode, ack, buttonPressed, gateHigh) of the specification.
ExpectedAdvance(m, ack, button, gate) ==
  CASE m = 1 -> ack
    [] m = 2 -> ack /\ button
    [] m = 3 -> ack /\ gate

\* The source the specification selects for a switch pair.
ExpectedSource(sw) ==
  CASE sw = <<FALSE, FALSE>> -> "Memory"
    [] sw = <<TRUE, FALSE>> -> "Grid"
    [] sw = <<FALSE, TRUE>> -> "Random"

\* The advance condition of the mode selected by the switch pair sw holds on
\* the present levels of the acknowledge, button and gate inputs.
AdvanceConditionNow(sw) ==
  ExpectedAdvance(ExpectedMode(sw), lines.ar, lines.button, lines.gate)

\* The same condition on the levels the next poll finds.
AdvanceConditionNext(sw) ==
  ExpectedAdvance(ExpectedMode(sw), lines'.ar, lines'.button, lines'.gate)

\* The payloads of the first n phonemes of the phrase ph, in index order.
Encodings(ph, n) ==
  [k \in 1..n |-> Phoneme(ph.symbols[k - 1], ph.inflections[k - 1]).payload]

\* The step of Wait that ends the wait.
WaitEnds == Wait /\ pc' # "wait"

(***************************************************************************)
(* Properties.                                                             *)
(***************************************************************************)

\* C1: for every symbol name at index k of the vocabulary and every
\* inflection j in 0..3, the payload of the constructed Phoneme decodes
\* (payload mod 64, payload div 64) to k and j.
C1_RoundTrip ==
  (pc = "constructed" /\ inflection \in 0..3) =>
    \A k \in 0..63 :
      symbol = validSymbolAt(k) =>
        /\ p.payload % 64 = k
        /\ p.payload \div 64 = inflection

\* C2: for every Phoneme constructed from any string and any integer
\* inflection, the payload is an 8-bit value, the stored inflectionIndex is in
\* 0..3, the stored symbolIndex is in 0..63, and the payload carries the
\* inflection in bits 7:6 and the symbol index in bits 5:0 without overlap.
C2_PayloadLayout ==
  pc = "constructed" =>
    /\ p.payload \in 0..255
    /\ p.inflectionIndex \in 0..3
    /\ p.symbolIndex \in 0..63
    /\ p.payload \div 64 = p.inflectionIndex
    /\ p.payload % 64 = p.symbolIndex

\* C2 witness: a Phoneme with both fields non-zero, built from a string that
\* is no symbol name.
C2_Witness ==
  /\ pc = "constructed"
  /\ symbol \in OtherStrings
  /\ p.inflectionIndex = 2
  /\ p.symbolIndex = 63
  /\ p.payload = 191

\* C3: after a mode is resolved from a switch pair (a, b), the mode the
\* following dispatch uses (phonemeMode in main, advanceMode in advListen) is
\* 1 for (false, false), 2 for (true, false) and 3 for (false, true).
C3_DispatchUsesResolvedMode ==
  /\ (pc = "say" /\ i = 0 /\ pSw # <<TRUE, TRUE>>) =>
       phonemeMode = ExpectedMode(pSw)
  /\ (pc = "wait" /\ aSw # <<TRUE, TRUE>>) =>
       advanceMode = ExpectedMode(aSw)

\* C4: mode resolution is total: whatever the two booleans are, (true, true)
\* included, the mode that updateMode ends with is a member of {1, 2, 3},
\* never the value held before and never an undefined one.
C4_ResolutionTotal ==
  (pc # "main" \/ strobed) => mode \in ModeSet

\* C5: the advance decision computed for a phoneme is ack in mode A,
\* ack and buttonPressed in mode B, ack and gateHigh in mode C.
C5_AdvanceDecision ==
  (pc = "wait" /\ aSw # <<TRUE, TRUE>>) =>
    advance = ExpectedAdvance(ExpectedMode(aSw), arLine, buttonLine, gateLine)

\* C6: in Gate mode (switch pair 2 reads (false, true)) the sequencer never
\* passes the advance gate while the gate input is low.
C6_GateModeHolds ==
  ~(pc = "strobe" /\ aSw = <<FALSE, TRUE>> /\ ~gateLine)

\* C7: strobe always follows load: while the strobe line is high the
\* register holds the payload of the phoneme at index i, loaded since the
\* previous strobe pulse, and between two consecutive loads there is exactly
\* one strobe pulse (never a second load before the strobe, never a second
\* strobe before the next load).
C7_StrobeFollowsLoad ==
  /\ loadsSinceStrobe <= 1
  /\ strobesSinceLoad <= 1
  /\ vStb = HIGH =>
       /\ loadsSinceStrobe = 1
       /\ strobesSinceLoad = 1
       /\ srOut = Phoneme(phrase.symbols[i], phrase.inflections[i]).payload
       /\ chipIn = srOut

\* C7 witness: the strobe pulse of a phoneme that follows another one.
C7_Witness ==
  /\ pc = "strobeHeld"
  /\ vStb = HIGH
  /\ i >= 1

\* C8: ack always precedes the next load: once a strobe pulse has been
\* issued, a payload is shifted into the register only after the A/R line
\* has been read high since that strobe.
C8_AckBeforeNextLoad ==
  (pc = "advListen" /\ strobed) => arSeen

\* C9: every phrase produced by setFromRandom has length in 4..9, and each
\* of its phonemes has a symbol of index 0..63 and an inflection in 0..3.
C9_RandomPhraseRanges ==
  pc = "randomSet" =>
    /\ phrase.length \in 4..9
    /\ \A k \in 0..(phrase.length - 1) :
         /\ \E index \in 0..63 : phrase.symbols[k] = validSymbolAt(index)
         /\ phrase.inflections[k] \in 0..3

\* C9 witness: a phrase of the greatest length holding the greatest symbol
\* index and the greatest inflection that are drawn.
C9_Witness ==
  /\ pc = "randomSet"
  /\ phrase.length = 9
  /\ \E k \in 0..8 : phrase.symbols[k] = validSymbolAt(62)
  /\ \E k \in 0..8 : phrase.inflections[k] = 2

\* C10: in Grid mode the input at the low extreme of both axes (x = -1,
\* y = -1) selects vowelGrid[0][0] and the input at the high extreme of both
\* axes (x = 1, y = 1) selects vowelGrid[7][4].
C10_GridCorners ==
  pc = "gridSet" =>
    /\ (x = 0 - GridScale /\ y = 0 - GridScale) =>
         /\ xIndex = 0
         /\ yIndex = 0
         /\ phrase.symbols[0] = validSymbolAt(vowelGridAt(0, 0))
    /\ (x = GridScale /\ y = GridScale) =>
         /\ xIndex = 7
         /\ yIndex = 4
         /\ phrase.symbols[0] = validSymbolAt(vowelGridAt(7, 4))

\* C11: for every x and y control value, also outside the nominal range,
\* Grid quantization clamps: xIndex is in 0..7, yIndex is in 0..4, and the
\* symbol stored is one of the 64 of the vocabulary.
C11_GridClamps ==
  pc = "gridSet" =>
    /\ xIndex \in 0..7
    /\ yIndex \in 0..4
    /\ \E index \in 0..63 : phrase.symbols[0] = validSymbolAt(index)

\* C12: after Init and after any sequence of setFreq and setPulseWidth
\* calls, the timer's compare value CCR1 is at most its period ARR (both
\* unsigned 32-bit).
C12_CompareWithinPeriod ==
  pc = "clock" => U32Leq(CCR1, ARR)

\* C13: encoding the symbol "PA0" with inflection 1 and loading it through
\* the chip link puts the bits 0,1,0,0,0,0,1,1 on the data line, most
\* significant bit first.
C13_DataLineOfPA0 ==
  (pc = "loaded" /\ symbol = <<80, 65, 48>> /\ inflection = 1) =>
    dataLine = <<0, 1, 0, 0, 0, 0, 1, 1>>

\* C13 witness: "PA0" with inflection 1 was encoded and loaded, and the shift
\* register holds 0b01000011.
C13_Witness ==
  /\ pc = "loaded"
  /\ symbol = validSymbolAt(3)
  /\ symbol = <<80, 65, 48>>
  /\ inflection = 1
  /\ p.payload = 67
  /\ srOut = 67

\* C14: a symbol name that is not in the vocabulary is encoded with symbol
\* index 3 for every inflection, and a name of the vocabulary whose index is
\* not 3 is never encoded with the fallback index 3.
C14_FallbackOnlyForUnknown ==
  pc = "constructed" =>
    /\ symbol \notin ValidStrings => p.symbolIndex = 3
    /\ \A k \in 0..63 :
         (symbol = validSymbolAt(k) /\ k # 3) => p.symbolIndex # 3

\* C15: an inflection outside 0..3 is encoded as inflection 0, bits 7:6 of the
\* payload being 00, and an inflection inside 0..3 is used unchanged.
C15_InflectionValidated ==
  pc = "constructed" =>
    /\ inflection \notin 0..3 =>
         (p.inflectionIndex = 0 /\ p.payload \div 64 = 0)
    /\ inflection \in 0..3 =>
         (p.inflectionIndex = inflection /\ p.payload \div 64 = inflection)

\* C15 witness: a Phoneme built with a negative inflection.
C15_Witness ==
  /\ pc = "constructed"
  /\ inflection = 0 - 1
  /\ p.inflectionIndex = 0
  /\ p.payload \div 64 = 0

\* C16: in every sequencing cycle the phrase that say outputs was generated
\* in that cycle by exactly one source, the one the phoneme-source switches
\* select: never by none and never by more than one.
C16_OneSourcePerCycle ==
  pc = "say" =>
    /\ Len(sources) = 1
    /\ pSw # <<TRUE, TRUE>> => sources = <<ExpectedSource(pSw)>>

\* C17: in every reachable state the phrase length is between 0 and 32, the
\* capacity of the symbol and inflection arrays, and the index of the phoneme
\* that say's loop has read is below 32.
C17_PhraseWithinCapacity ==
  /\ phrase.length \in 0..maxLength
  /\ pc \in {"advListen", "wait", "strobe", "strobeHeld"} =>
       i \in 0..(maxLength - 1)

\* C17 witness: the last phoneme of a phrase of full length has been read.
C17_Witness ==
  /\ pc = "advListen"
  /\ phrase.length = maxLength
  /\ i = maxLength - 1

\* C18: a phoneme transmission never waits forever for the acknowledge: in
\* every state of the wait there is a step that ends it.
C18_WaitCanEnd ==
  pc = "wait" => ENABLED WaitEnds

\* C19: in a cycle for which Memory mode is selected (switch pair 1 reads
\* (false, false)) while no phrase is stored, no phoneme is strobed into
\* the chip.
C19_EmptySlotNotEmitted ==
  ~(pc = "strobeHeld" /\ pSw = <<FALSE, FALSE>>)

\* C20: the advance gate is evaluated again on every poll: when the advance
\* condition of the selected mode was false on the inputs and a poll of the
\* wait finds it true, the wait ends with that poll.
C20_GatePolled ==
  [][(/\ pc = "wait"
      /\ aSw # <<TRUE, TRUE>>
      /\ ~AdvanceConditionNow(aSw)
      /\ AdvanceConditionNext(aSw)) => pc' # "wait"]_vars

\* C21: the advance mode is resolved again before each phoneme: when switch
\* pair 2 is read in new positions at a later phoneme of the phrase, by say
\* before the phoneme or by advListen before its gate, advanceMode becomes
\* the mode of the new positions.
C21_AdvanceModeFollowsSwitches ==
  [][(/\ i > 0
      /\ \/ (pc = "say" /\ pc' = "advListen")
         \/ (pc = "advListen" /\ pc' = "wait")
      /\ aSw' # aSw
      /\ aSw' # <<TRUE, TRUE>>) => advanceMode' = ExpectedMode(aSw')]_vars

\* C22: after the last phoneme of a phrase no mode is resolved and no phrase
\* is generated or transmitted until the performance button is read as
\* pressed; when it is read as pressed, control is at the mode resolution
\* that begins the next cycle, and a new cycle begins in no other way.
C22_ButtonStartsNextCycle ==
  [][/\ pc = "button" =>
          /\ pc' = IF buttonLine' THEN "main" ELSE "button"
          /\ UNCHANGED <<phonemeMode, advanceMode, mode, pSw, aSw, phrase,
                         sources, calls, srOut, writes, chipIn, sent, vStb>>
     /\ (pc' = "main" /\ pc # "main") => (pc = "button" /\ buttonLine')]_vars

\* C22 witness: a whole phrase was output, the button was read as pressed
\* and control is back at mode resolution.
C22_Witness ==
  /\ pc = "main"
  /\ buttonLine
  /\ Len(sent) = phrase.length
  /\ Len(sent) > 0

\* C23: in Random generation every random draw (the length draw, each
\* symbol-index draw, each inflection draw) is immediately preceded by a
\* reseed: no draw is first and no draw follows another draw.
C23_ReseedBeforeEachDraw ==
  pc = "randomSet" =>
    \A k \in 1..Len(calls) :
      calls[k] = "random" => (k > 1 /\ calls[k - 1] = "randomSeed")

\* C24: the Random source can produce every value of its ranges: each length
\* in 4..9, each symbol of index 0..63 and each inflection in 0..3 is what
\* a call of setFromRandom stores for some outputs of rand().
C24_EveryValueDrawn ==
  pc = "random" =>
    /\ \A n \in 4..9 : \E r \in RandStreams :
         setFromRandom(phrase, r).length = n
    /\ \A j \in 0..3 : \E r \in RandStreams :
         setFromRandom(phrase, r).inflections[0] = j
    /\ \A k \in 0..63 : \E r \in RandStreams :
         setFromRandom(phrase, r).symbols[0] = validSymbolAt(k)

\* C25: after Grid generation the phrase has length 1 and its single phoneme
\* has inflection 0, whatever phrase was held before.
C25_GridPhraseInflectionZero ==
  pc = "gridSet" =>
    /\ phrase.length = 1
    /\ phrase.inflections[0] = 0

\* C26: the clock follows the frequency and pitch controls independently of
\* phrase cycles: wherever the sequencer is (outputting a phrase, or blocked
\* at the acknowledge, the advance gate or the end-of-phrase button), when
\* the timer period is not that of the present control positions a step that
\* writes the period can be taken.
C26_ClockFollowsControls ==
  (/\ pc \in {"say", "advListen", "wait", "strobe", "strobeHeld", "button"}
   /\ ~PeriodFollowsControls) => ENABLED PeriodUpdate

\* C27: loading one payload byte writes exactly 8 data bits, most significant
\* first, each followed by one clock pulse (high, then low), then pulses the
\* latch line high then low exactly once, so that the latch is low when the
\* load returns; the strobe line is not written and is low before, during
\* and after the load.
C27_LoadSequence ==
  /\ pc \in {"say", "advListen", "wait", "strobe"} => vStb = LOW
  /\ pc \in {"advListen", "wait", "strobe"} =>
       /\ Len(writes) = 26
       /\ \A k \in 1..8 :
            /\ writes[3 * k - 2] = <<"srData", (p.payload \div Pow2(8 - k)) % 2>>
            /\ writes[3 * k - 1] = <<"srClk", HIGH>>
            /\ writes[3 * k] = <<"srClk", LOW>>
       /\ writes[25] = <<"srLatch", HIGH>>
       /\ writes[26] = <<"srLatch", LOW>>

\* C27 witness: a byte with bits of both levels has been loaded and the
\* strobe has not begun.
C27_Witness ==
  /\ pc = "advListen"
  /\ p.payload = 131
  /\ writes[1] = <<"srData", 1>>
  /\ writes[4] = <<"srData", 0>>
  /\ dataLine = <<1, 0, 0, 0, 0, 0, 1, 1>>
  /\ vStb = LOW

\* C28: the bytes the chip latches during one call of say are the encodings
\* of the phrase's phonemes at indices 0..length-1 in index order, each once:
\* after each strobe they are the encodings up to the present index, at the
\* end of say those of the whole phrase, and none when the length is 0.
C28_SayLoadsPhraseInOrder ==
  /\ pc \in {"say", "advListen", "wait", "strobe"} =>
       (i <= phrase.length /\ sent = Encodings(phrase, i))
  /\ pc = "strobeHeld" =>
       (i < phrase.length /\ sent = Encodings(phrase, i + 1))
  /\ pc = "button" => sent = Encodings(phrase, phrase.length)

\* C28 witness: say has ended after a Random phrase of four phonemes with
\* different encodings was output.
C28_Witness ==
  /\ pc = "button"
  /\ phrase.length = 4
  /\ Len(sent) = 4
  /\ sent[1] # sent[3]
  /\ chipIn = sent[4]

\* C29: for every pitch control value, the index at which setFreq reads the
\* 37-entry multiplier table is in 0..36.
C29_MultiplierIndexInTable ==
  pc = "clock" => multIndex \in 0..36

====
